---- MODULE Spec2Model ----
(***************************************************************************)
(* Verification model of the 1040 Paydays calculator (src/src/App.jsx).     *)
(*                                                                         *)
(* Numbers.  JavaScript numbers are modelled in fixed point: a value x is  *)
(* the integer x * NumScale (two decimal places), rounded toward minus     *)
(* infinity where the code multiplies by a rate.  Growth factors are fixed *)
(* point with RateScale.  A value that can be undefined / null / NaN is    *)
(* modelled as a set: {} for the absent value, {v} for the value v.        *)
(* Text typed into the form is a sequence of one-character strings.        *)
(***************************************************************************)
EXTENDS Integers, Sequences, FiniteSets, TLC

VARIABLES
  \* ---- React state of App (useState) ----
  currentAge, retirementAge, targetAgeManual,
  startingAmount, contributionPerPayday, annualRatePct, frequencyKey,
  windfallAmount, windfallOpen, windfallWhen,
  windfallAtYear, windfallAtAge, windfallAtPayday,
  yMaxDisplay, scaleResetToken,
  \* ---- useRef / useMemo values of App, as of the last render ----
  lastScaleResetToken, projectionSingle, computedYMax,
  \* ---- the render / effect cycle: phase is "dirty" (state set, render
  \*      pending), "effects" (rendered, effects pending) or "idle";
  \*      deps are the dependency values the effects last saw;
  \*      pendingEffects are the effects whose dependencies changed ----
  phase, deps, pendingEffects,
  \* ---- history: the inputs [prevMax, computedMax, reset] of the scale
  \*      effect if it ran in the current update cycle, and the number of
  \*      user events so far ----
  lastCycle, nEvents,
  \* ---- state of the ErrorBoundary around the page: {} (error: null) or
  \*      the error caught from a descendant's render ----
  boundaryError,
  \* ---- direct calls of the pure functions: name, arguments, returned value,
  \*      and the previous call ([args, result]) ----
  fn, args, result, prev

formVars  == <<currentAge, retirementAge, targetAgeManual, startingAmount,
               contributionPerPayday, annualRatePct, frequencyKey,
               windfallAmount, windfallOpen, windfallWhen,
               windfallAtYear, windfallAtAge, windfallAtPayday>>
scaleVars == <<yMaxDisplay, scaleResetToken, lastScaleResetToken>>
memoVars  == <<projectionSingle, computedYMax>>
cycleVars == <<phase, deps, pendingEffects, lastCycle, nEvents, boundaryError>>
callVars  == <<fn, args, result, prev>>
vars      == <<formVars, scaleVars, memoVars, cycleVars, callVars>>

(***************************************************************************)
(* Fixed-point arithmetic                                                  *)
(***************************************************************************)
NumScale  == 100
RateScale == 100 * NumScale

None    == {}
Some(v) == {v}
The(s)  == CHOOSE v \in s : TRUE

Min2(a, b) == IF a <= b THEN a ELSE b
Max2(a, b) == IF a >= b THEN a ELSE b

\* floor(a * b / s) for 0 <= b, s > 0, without forming the product a * b
MulDivFloor(a, b, s) == (a \div s) * b + ((a % s) * b) \div s

\* Math.round of the ratio n / d (d > 0): nearest integer, halves toward +Infinity
RoundDiv(n, d) == (2 * n + d) \div (2 * d)

\* function clamp(n, min, max)
clamp(n, min, max) == Min2(max, Max2(min, n))

(***************************************************************************)
(* computeProjection                                                       *)
(***************************************************************************)
RECURSIVE PowFix(_, _, _)
\* acc * g^n in RateScale fixed point, the product truncated at every step.
\* The n multiplications are split in two runs and the first run is
\* evaluated before the second, which keeps the evaluation depth at log n.
PowFix(g, n, acc) ==
  IF n = 0 THEN acc
  ELSE IF n = 1 THEN (acc * g) \div RateScale
  ELSE LET h     == n \div 2
           first == PowFix(g, h, acc)
       IN  IF first >= 0 THEN PowFix(g, n - h, first) ELSE first

RECURSIVE RootSearch(_, _, _, _)
\* the largest g in lo..hi with g^n <= target (lo^n <= target)
RootSearch(target, n, lo, hi) ==
  IF lo >= hi THEN lo
  ELSE LET mid == (lo + hi + 1) \div 2
       IN  IF PowFix(mid, n, RateScale) <= target
           THEN RootSearch(target, n, mid, hi)
           ELSE RootSearch(target, n, lo, mid - 1)

\* rPerPeriod = ppy > 0 ? Math.pow(1 + rAnnual, 1 / ppy) - 1 : 0, in RateScale
\* units.  The root is searched between 1 and 1 + rAnnual / ppy (for a
\* growth rate; (1 + x/n)^n >= 1 + x), or between 1 + rAnnual and 1.
rPerPeriod(ratePct, ppy) ==
  LET rAnnual == (ratePct * RateScale) \div (100 * NumScale)
      onePlus == RateScale + rAnnual
  IN  IF ppy > 0
      THEN (IF rAnnual >= 0
            THEN RootSearch(onePlus, ppy, RateScale, RateScale + rAnnual \div ppy + 1)
            ELSE RootSearch(onePlus, ppy, onePlus, RateScale)) - RateScale
      ELSE 0

DefaultMaxPoints == 240

\* yearsOf that takes the distance between the two ages
yearsOfAbs(curAge, retAge) ==
  IF retAge >= curAge THEN retAge - curAge ELSE curAge - retAge

\* years and totalPeriods as computeProjection (and its callers) derive them
yearsOf(curAge, retAge) == Max2(0, retAge - curAge)
totalPeriodsOf(curAge, retAge, ppy) ==
  Max2(0, RoundDiv(yearsOf(curAge, retAge) * ppy, NumScale))

\* sampleStepOf that never strides
sampleStepOne(totalPeriods, maxPoints) == 1

\* sampleStepOf with Math.floor in place of Math.ceil
sampleStepFloor(totalPeriods, maxPoints) ==
  IF maxPoints <= 0 THEN 1
  ELSE Max2(1, totalPeriods \div maxPoints)

\* sampleStep = keepAll ? 1 : Math.max(1, Math.ceil(totalPeriods / maxPoints))
sampleStepOf(totalPeriods, maxPoints) ==
  IF maxPoints <= 0 THEN 1
  ELSE Max2(1, (totalPeriods + maxPoints - 1) \div maxPoints)

\* keepPoint without the "always keep last" clause
keepPointNoLast(i, totalPeriods, maxPoints) ==
  \/ maxPoints <= 0
  \/ i % sampleStepOf(totalPeriods, maxPoints) = 0

keepPoint(i, totalPeriods, maxPoints) ==
  \/ maxPoints <= 0
  \/ i % sampleStepOf(totalPeriods, maxPoints) = 0
  \/ i = totalPeriods

\* projectionStep with interestEarned computed without the starting amount
projectionStepInterestNoStart(a, totalPeriods, r, maxPoints, i, st) ==
  LET wf      == IF a.windfallAmount > 0 /\ a.windfallAtPeriod = Some(i)
                 THEN a.windfallAmount ELSE 0
      before  == st.balance + wf + a.contributionPerPayday
      contrib == st.totalContrib + wf + a.contributionPerPayday
      bal     == before + MulDivFloor(before, r, RateScale)
      point   == [periodIndex |-> i,
                  yearIndex |-> (i * NumScale) \div a.payPeriodsPerYear,
                  balance |-> bal,
                  totalContrib |-> contrib,
                  interestEarned |-> bal - contrib,
                  interestThisPeriod |-> Some(bal - before)]
  IN  [balance |-> bal, totalContrib |-> contrib,
       points |-> IF keepPoint(i, totalPeriods, maxPoints)
                  THEN Append(st.points, point) ELSE st.points]

\* projectionStep that skips the periods it does not sample
projectionStepSampledOnly(a, totalPeriods, r, maxPoints, i, st) ==
  LET wf      == IF a.windfallAmount > 0 /\ a.windfallAtPeriod = Some(i)
                 THEN a.windfallAmount ELSE 0
      before  == st.balance + wf + a.contributionPerPayday
      contrib == st.totalContrib + wf + a.contributionPerPayday
      bal     == before + MulDivFloor(before, r, RateScale)
      point   == [periodIndex |-> i,
                  yearIndex |-> (i * NumScale) \div a.payPeriodsPerYear,
                  balance |-> bal,
                  totalContrib |-> contrib,
                  interestEarned |-> bal - a.startingAmount - contrib,
                  interestThisPeriod |-> Some(bal - before)]
  IN  IF keepPoint(i, totalPeriods, maxPoints)
      THEN [balance |-> bal, totalContrib |-> contrib,
            points |-> Append(st.points, point)]
      ELSE st

\* projectionStep that adds the windfall to the balance only
projectionStepWindfallNotContrib(a, totalPeriods, r, maxPoints, i, st) ==
  LET wf      == IF a.windfallAmount > 0 /\ a.windfallAtPeriod = Some(i)
                 THEN a.windfallAmount ELSE 0
      before  == st.balance + wf + a.contributionPerPayday
      contrib == st.totalContrib + a.contributionPerPayday
      bal     == before + MulDivFloor(before, r, RateScale)
      point   == [periodIndex |-> i,
                  yearIndex |-> (i * NumScale) \div a.payPeriodsPerYear,
                  balance |-> bal,
                  totalContrib |-> contrib,
                  interestEarned |-> bal - a.startingAmount - contrib,
                  interestThisPeriod |-> Some(bal - before)]
  IN  [balance |-> bal, totalContrib |-> contrib,
       points |-> IF keepPoint(i, totalPeriods, maxPoints)
                  THEN Append(st.points, point) ELSE st.points]

\* projectionStep that grows the balance before adding the deposits
projectionStepGrowthFirst(a, totalPeriods, r, maxPoints, i, st) ==
  LET wf      == IF a.windfallAmount > 0 /\ a.windfallAtPeriod = Some(i)
                 THEN a.windfallAmount ELSE 0
      grown   == st.balance + MulDivFloor(st.balance, r, RateScale)
      contrib == st.totalContrib + wf + a.contributionPerPayday
      bal     == grown + wf + a.contributionPerPayday
      point   == [periodIndex |-> i,
                  yearIndex |-> (i * NumScale) \div a.payPeriodsPerYear,
                  balance |-> bal,
                  totalContrib |-> contrib,
                  interestEarned |-> bal - a.startingAmount - contrib,
                  interestThisPeriod |-> Some(grown - st.balance)]
  IN  [balance |-> bal, totalContrib |-> contrib,
       points |-> IF keepPoint(i, totalPeriods, maxPoints)
                  THEN Append(st.points, point) ELSE st.points]

\* one iteration of the for loop of computeProjection: period i from state st
projectionStep(a, totalPeriods, r, maxPoints, i, st) ==
  LET wf      == IF a.windfallAmount > 0 /\ a.windfallAtPeriod = Some(i)
                 THEN a.windfallAmount ELSE 0
      before  == st.balance + wf + a.contributionPerPayday
      contrib == st.totalContrib + wf + a.contributionPerPayday
      bal     == before + MulDivFloor(before, r, RateScale)
      point   == [periodIndex |-> i,
                  yearIndex |-> (i * NumScale) \div a.payPeriodsPerYear,
                  balance |-> bal,
                  totalContrib |-> contrib,
                  interestEarned |-> bal - a.startingAmount - contrib,
                  interestThisPeriod |-> Some(bal - before)]
  IN  [balance |-> bal, totalContrib |-> contrib,
       points |-> IF keepPoint(i, totalPeriods, maxPoints)
                  THEN Append(st.points, point) ELSE st.points]

RECURSIVE projectionLoop(_, _, _, _, _, _, _)
\* the for loop of computeProjection over the periods lo..hi, in order; the
\* range is split in two and the first half is evaluated before the second,
\* which keeps the evaluation depth at log(hi - lo)
projectionLoop(a, totalPeriods, r, maxPoints, lo, hi, st) ==
  IF lo > hi THEN st
  ELSE IF lo = hi THEN projectionStep(a, totalPeriods, r, maxPoints, lo, st)
  ELSE LET mid   == (lo + hi) \div 2
           first == projectionLoop(a, totalPeriods, r, maxPoints, lo, mid, st)
       IN  IF Len(first.points) > 0
           THEN projectionLoop(a, totalPeriods, r, maxPoints, mid + 1, hi, first)
           ELSE first

computeProjection(a) ==
  LET years        == yearsOf(a.currentAge, a.retirementAge)
      totalPeriods == totalPeriodsOf(a.currentAge, a.retirementAge, a.payPeriodsPerYear)
      r            == rPerPeriod(a.annualRatePct, a.payPeriodsPerYear)
      maxPoints    == IF a.maxPoints = None THEN DefaultMaxPoints ELSE The(a.maxPoints)
      point0       == [periodIndex |-> 0, yearIndex |-> 0,
                       balance |-> a.startingAmount, totalContrib |-> 0,
                       interestEarned |-> a.startingAmount - a.startingAmount - 0,
                       interestThisPeriod |-> None]
      end          == projectionLoop(a, totalPeriods, r, maxPoints, 1, totalPeriods,
                        [balance |-> a.startingAmount, totalContrib |-> 0,
                         points |-> <<point0>>])
  IN  [years |-> years,
       totalPeriods |-> totalPeriods,
       finalBalance |-> end.balance,
       finalContrib |-> end.totalContrib,
       finalInterest |-> end.balance - a.startingAmount - end.totalContrib,
       points |-> end.points]

(***************************************************************************)
(* Text and number conversion                                              *)
(***************************************************************************)
Digits       == <<"0", "1", "2", "3", "4", "5", "6", "7", "8", "9">>
DigitChars   == {Digits[k] : k \in 1..10}
DigitValue(c) == (CHOOSE k \in 1..10 : Digits[k] = c) - 1
\* the characters kept by replace(/[^0-9.-]/g, "")
NumericChars == DigitChars \cup {".", "-"}

NaN == None

RECURSIVE KeepChars(_, _)
KeepChars(t, keep) ==
  IF t = <<>> THEN <<>>
  ELSE IF Head(t) \in keep THEN <<Head(t)>> \o KeepChars(Tail(t), keep)
  ELSE KeepChars(Tail(t), keep)

RECURSIVE DigitsValue(_)
\* the value of a string of digits
DigitsValue(ds) ==
  IF ds = <<>> THEN 0 ELSE 10 * DigitsValue(SubSeq(ds, 1, Len(ds) - 1)) + DigitValue(ds[Len(ds)])

RECURSIVE FractionValue(_, _)
\* the value of the digits after the decimal point, in units of 1 / scale
\* (digits beyond the fixed-point resolution are dropped)
FractionValue(ds, scale) ==
  IF ds = <<>> \/ scale = 1 THEN 0
  ELSE DigitValue(Head(ds)) * (scale \div 10) + FractionValue(Tail(ds), scale \div 10)

\* Number(s) for a string s over NumericChars: StringToNumber of the
\* StrDecimalLiteral grammar ("" is 0; anything malformed is NaN)
NumberOfNumeric(s) ==
  LET neg     == s # <<>> /\ Head(s) = "-"
      body    == IF neg THEN Tail(s) ELSE s
      dots    == {k \in 1..Len(body) : body[k] = "."}
      dot     == IF dots = {} THEN Len(body) + 1 ELSE CHOOSE k \in dots : TRUE
      whole   == SubSeq(body, 1, dot - 1)
      frac    == SubSeq(body, dot + 1, Len(body))
      wellFormed == /\ \A k \in 1..Len(body) : body[k] \in DigitChars \cup {"."}
                    /\ Cardinality(dots) <= 1
                    /\ Len(whole) + Len(frac) >= 1
      mag     == DigitsValue(whole) * NumScale + FractionValue(frac, NumScale)
  IN  IF s = <<>> THEN Some(0)
      ELSE IF ~wellFormed THEN NaN
      ELSE Some(IF neg THEN -mag ELSE mag)

\* Number(text) for a text of the form: any other character makes it NaN
Number(t) ==
  IF \A k \in 1..Len(t) : t[k] \in NumericChars THEN NumberOfNumeric(t) ELSE NaN

\* function parseNum(v)
parseNum(v) ==
  LET n == NumberOfNumeric(KeepChars(v, NumericChars))
  IN  IF n # NaN THEN The(n) ELSE 0

\* a whole number n as a JavaScript number
Num(n) == Some(n * NumScale)

\* clampInt without the lower clamp
clampIntNoLower(n, min, max) ==
  IF n = NaN THEN min
  ELSE Min2(max, RoundDiv(The(n), NumScale))

\* function clampInt(n, min, max); n is a JavaScript number (possibly NaN)
\* in fixed point, min, max and the result are whole numbers
clampInt(n, min, max) ==
  IF n = NaN THEN min
  ELSE Min2(max, Max2(min, RoundDiv(The(n), NumScale)))

(***************************************************************************)
(* windfallPeriodFromChoice                                                *)
(***************************************************************************)
\* windfallPeriodFromChoice that counts the years of the "age" policy from
\* age 0 instead of from the current age
windfallPeriodAgeAbsolute(w) ==
  IF w.when = "" THEN None
  ELSE IF w.when = "none" THEN None
  ELSE IF w.when = "now" THEN Some(1)
  ELSE IF w.when = "year" THEN
    LET y == clampInt(Number(w.atYear), 1, 80)
    IN  Some(clampInt(Num(y * w.payPeriodsPerYear), 1, w.totalPeriods))
  ELSE IF w.when = "age" THEN
    LET targetAge == clampInt(Number(w.atAge), w.currentAge, w.currentAge + 80)
    IN  Some(clampInt(Num(targetAge * w.payPeriodsPerYear), 1, w.totalPeriods))
  ELSE IF w.when = "payday" THEN
    Some(clampInt(Number(w.atPayday), 1, w.totalPeriods))
  ELSE None

windfallPeriodFromChoice(w) ==
  IF w.when = "" THEN None
  ELSE IF w.when = "none" THEN None
  ELSE IF w.when = "now" THEN Some(1)
  ELSE IF w.when = "year" THEN
    LET y == clampInt(Number(w.atYear), 1, 80)
    IN  Some(clampInt(Num(y * w.payPeriodsPerYear), 1, w.totalPeriods))
  ELSE IF w.when = "age" THEN
    LET targetAge    == clampInt(Number(w.atAge), w.currentAge, w.currentAge + 80)
        yearsFromNow == Max2(0, targetAge - w.currentAge)
    IN  Some(clampInt(Num(yearsFromNow * w.payPeriodsPerYear), 1, w.totalPeriods))
  ELSE IF w.when = "payday" THEN
    Some(clampInt(Number(w.atPayday), 1, w.totalPeriods))
  ELSE None

(***************************************************************************)
(* Axis scale: niceRoundUp, makeLogTicks, the yMaxDisplay updater          *)
(***************************************************************************)
RECURSIVE Pow10Floor(_, _)
\* Math.pow(10, Math.floor(Math.log10(n))) for n >= p: the largest p * 10^k <= n
Pow10Floor(n, p) == IF 10 * p > n THEN p ELSE Pow10Floor(n, 10 * p)

\* function niceRoundUp(n)
niceRoundUp(n) ==
  IF n <= 0 THEN NumScale
  ELSE LET pow  == Pow10Floor(n, 1)
           nice == IF n <= pow THEN 1 ELSE IF n <= 2 * pow THEN 2
                   ELSE IF n <= 5 * pow THEN 5 ELSE 10
       IN  nice * pow

RECURSIVE SortedSeq(_)
\* Array.from(new Set(ticks)).sort((a, b) => a - b)
SortedSeq(S) ==
  IF S = {} THEN <<>>
  ELSE LET lo == CHOOSE x \in S : \A y \in S : x <= y
       IN  <<lo>> \o SortedSeq(S \ {lo})

Range(q) == {q[k] : k \in 1..Len(q)}

RECURSIVE logTickLoop(_, _, _)
\* the loop over p of makeLogTicks: pushes 1, 2, 5 times 10^p while <= m
logTickLoop(m, pow, ticks) ==
  IF pow > Pow10Floor(m, NumScale) THEN ticks
  ELSE LET t1 == IF 1 * pow <= m THEN Append(ticks, 1 * pow) ELSE ticks
           t2 == IF 2 * pow <= m THEN Append(t1, 2 * pow) ELSE t1
           t5 == IF 5 * pow <= m THEN Append(t2, 5 * pow) ELSE t2
       IN  logTickLoop(m, 10 * pow, t5)

\* makeLogTicks that does not push max itself as the top tick
makeLogTicksNoTop(max) ==
  LET m     == Max2(NumScale, IF max = 0 THEN NumScale ELSE max)
      ticks == logTickLoop(m, NumScale, <<0>>)
      uniq  == SortedSeq(Range(ticks))
      odd   == SelectSeq([k \in 1..Len(uniq) |-> k - 1],
                         LAMBDA i : i >= 1 /\ i < Len(uniq) - 1 /\ i % 2 = 1)
      kept  == <<0>> \o [k \in 1..Len(odd) |-> uniq[odd[k] + 1]] \o <<uniq[Len(uniq)]>>
  IN  IF Len(uniq) <= 7 THEN uniq ELSE kept

\* function makeLogTicks(max)
makeLogTicks(max) ==
  LET m     == Max2(NumScale, IF max = 0 THEN NumScale ELSE max)
      ticks == logTickLoop(m, NumScale, <<0>>)
      all   == IF ticks[Len(ticks)] # m THEN Append(ticks, m) ELSE ticks
      uniq  == SortedSeq(Range(all))
      odd   == SelectSeq([k \in 1..Len(uniq) |-> k - 1],
                         LAMBDA i : i >= 1 /\ i < Len(uniq) - 1 /\ i % 2 = 1)
      kept  == <<0>> \o [k \in 1..Len(odd) |-> uniq[odd[k] + 1]] \o <<uniq[Len(uniq)]>>
  IN  IF Len(uniq) <= 7 THEN uniq ELSE kept

\* yMaxUpdater that never snaps up once initialised
yMaxUpdaterNoSnapUp(prevMax, computed, resetRequested) ==
  IF resetRequested THEN computed
  ELSE IF prevMax = 0 THEN computed
  ELSE IF 4 * computed < 3 * prevMax THEN Max2(computed, MulDivFloor(prevMax, 96, 100))
  ELSE IF computed < prevMax THEN Max2(computed, MulDivFloor(prevMax, 985, 1000))
  ELSE prevMax

\* yMaxUpdater that relaxes downward at the slow rate only
yMaxUpdaterOneRate(prevMax, computed, resetRequested) ==
  IF resetRequested THEN computed
  ELSE IF prevMax = 0 THEN computed
  ELSE IF computed >= prevMax THEN computed
  ELSE IF computed < prevMax THEN Max2(computed, MulDivFloor(prevMax, 985, 1000))
  ELSE prevMax

\* yMaxUpdater that ignores the reset token
yMaxUpdaterNoReset(prevMax, computed, resetRequested) ==
  IF prevMax = 0 THEN computed
  ELSE IF computed >= prevMax THEN computed
  ELSE IF 4 * computed < 3 * prevMax THEN Max2(computed, MulDivFloor(prevMax, 96, 100))
  ELSE IF computed < prevMax THEN Max2(computed, MulDivFloor(prevMax, 985, 1000))
  ELSE prevMax

\* the updater passed to setYMaxDisplay by the scale effect: the new
\* yMaxDisplay from the previous one, the computedYMax of the render and
\* whether lastScaleResetToken.current differs from scaleResetToken
yMaxUpdater(prevMax, computed, resetRequested) ==
  IF resetRequested THEN computed
  ELSE IF prevMax = 0 THEN computed
  ELSE IF computed >= prevMax THEN computed
  ELSE IF 4 * computed < 3 * prevMax THEN Max2(computed, MulDivFloor(prevMax, 96, 100))
  ELSE IF computed < prevMax THEN Max2(computed, MulDivFloor(prevMax, 985, 1000))
  ELSE prevMax

(***************************************************************************)
(* App: memoised values (useMemo) as functions of the React state          *)
(***************************************************************************)
RECURSIVE DigitsOf(_)
\* the decimal digits of a natural number
DigitsOf(n) ==
  IF n < 10 THEN <<Digits[n + 1]>> ELSE Append(DigitsOf(n \div 10), Digits[(n % 10) + 1])

\* String(n) for a JavaScript number n
NumToText(n) ==
  LET mag   == IF n < 0 THEN -n ELSE n
      cents == mag % NumScale
      frac  == IF cents = 0 THEN <<>>
               ELSE IF cents % 10 = 0 THEN <<".", Digits[(cents \div 10) + 1]>>
               ELSE <<".", Digits[(cents \div 10) + 1], Digits[(cents % 10) + 1]>>
  IN  (IF n < 0 THEN <<"-">> ELSE <<>>) \o DigitsOf(mag \div NumScale) \o frac

\* String(k) for a whole number k
IntToText(k) == NumToText(k * NumScale)

PAY_FREQUENCIES == [daily |-> 365, weekly |-> 52, biweekly |-> 26, monthly |-> 12]

\* const payPeriodsPerYear = useMemo(...)
payPeriodsPerYear ==
  IF frequencyKey \in DOMAIN PAY_FREQUENCIES THEN PAY_FREQUENCIES[frequencyKey] ELSE 12

\* the totalPeriods that projectionSingle / projectionCompare hand to the scheduler
memoTotalPeriods ==
  totalPeriodsOf(parseNum(currentAge), parseNum(retirementAge), payPeriodsPerYear)

\* memoWindfallAtPeriod resolved against a horizon that is not the
\* simulator's totalPeriods
memoWindfallAtPeriodNoHorizon ==
  windfallPeriodFromChoice(
    [when |-> windfallWhen, atYear |-> windfallAtYear, atAge |-> windfallAtAge,
     atPayday |-> windfallAtPayday,
     currentAge |-> clampInt(Some(parseNum(currentAge)), 0, 120),
     payPeriodsPerYear |-> payPeriodsPerYear,
     totalPeriods |-> 1000000])

\* the windfallAtPeriod that projectionSingle / projectionCompare compute
memoWindfallAtPeriod ==
  windfallPeriodFromChoice(
    [when |-> windfallWhen, atYear |-> windfallAtYear, atAge |-> windfallAtAge,
     atPayday |-> windfallAtPayday,
     currentAge |-> clampInt(Some(parseNum(currentAge)), 0, 120),
     payPeriodsPerYear |-> payPeriodsPerYear,
     totalPeriods |-> memoTotalPeriods])

\* the argument of computeProjection in projectionSingle / projectionCompare
memoProjectionInput(ratePct) ==
  [currentAge |-> parseNum(currentAge),
   retirementAge |-> parseNum(retirementAge),
   startingAmount |-> parseNum(startingAmount),
   contributionPerPayday |-> parseNum(contributionPerPayday),
   annualRatePct |-> ratePct,
   payPeriodsPerYear |-> payPeriodsPerYear,
   windfallAmount |-> parseNum(windfallAmount),
   windfallAtPeriod |-> memoWindfallAtPeriod,
   maxPoints |-> Some(240)]

memoBaseRate == clamp(parseNum(annualRatePct), 1 * NumScale, 15 * NumScale)

\* const projectionSingle = useMemo(...)
memoProjectionSingle == computeProjection(memoProjectionInput(memoBaseRate))

\* const projectionCompare = useMemo(...)
memoCompareRates ==
  <<clamp(memoBaseRate - 2 * NumScale, 1 * NumScale, 15 * NumScale),
    memoBaseRate,
    clamp(memoBaseRate + 2 * NumScale, 1 * NumScale, 15 * NumScale)>>

\* projectionCompare computed without the windfall
memoProjectionCompareNoWindfall ==
  [k \in 1..3 |->
     computeProjection([memoProjectionInput(memoCompareRates[k])
                          EXCEPT !.windfallAtPeriod = None])]

memoProjectionCompare ==
  [k \in 1..3 |-> computeProjection(memoProjectionInput(memoCompareRates[k]))]

MaxOf(S) == CHOOSE x \in S : \A y \in S : y <= x

\* const computedYMax = useMemo(...), given the two projection memos
memoComputedYMax(single, compare) ==
  LET singleMax  == MaxOf({NumScale} \cup {single.points[k].balance : k \in 1..Len(single.points)})
      compareMax == MaxOf({NumScale} \cup {compare[k].finalBalance : k \in 1..3})
  IN  niceRoundUp(Max2(singleMax, compareMax))

\* the dependency arrays of the effects of App, for the values of a render
effectDeps(cYMax) ==
  [targetAge    |-> <<currentAge, targetAgeManual>>,
   windfallOpen |-> <<windfallAmount, windfallWhen>>,
   yMax         |-> <<cYMax, scaleResetToken>>]
EffectNames == {"targetAge", "windfallOpen", "yMax"}

(***************************************************************************)
(* App: state after construction, user events, render and effects          *)
(***************************************************************************)
\* the texts the model types into the form
TxtEmpty   == <<>>
Txt0       == <<"0">>
Txt1       == <<"1">>
Txt2       == <<"2">>
Txt3       == <<"3">>
Txt7       == <<"7">>
Txt15      == <<"1", "5">>
Txt30      == <<"3", "0">>
Txt35      == <<"3", "5">>
Txt45      == <<"4", "5">>
Txt50      == <<"5", "0">>
Txt60      == <<"6", "0">>
Txt61      == <<"6", "1">>
Txt64      == <<"6", "4">>
Txt65      == <<"6", "5">>
Txt70      == <<"7", "0">>
Txt99      == <<"9", "9">>
Txt100     == <<"1", "0", "0">>
Txt130     == <<"1", "3", "0">>
Txt500     == <<"5", "0", "0">>
TxtNeg5    == <<"-", "5">>
TxtNeg50   == <<"-", "5", "0">>
TxtNeg200  == <<"-", "2", "0", "0">>
TxtDollar1000 == <<"$", "1", ",", "0", "0", "0">>
Txt5p5     == <<"5", ".", "5">>
Txt64p5    == <<"6", "4", ".", "5">>
TxtAbc     == <<"a", "b", "c">>

CurrentAgeTexts    == {Txt64, Txt70, Txt130}
RetirementAgeTexts == {Txt30, Txt64p5}
StartingTexts      == {TxtDollar1000, TxtNeg200}
ContributionTexts  == {TxtNeg50, TxtAbc}
WindfallTexts      == {Txt500, TxtNeg5}
WindfallYearTexts  == {Txt99, TxtAbc}
SliderValues       == {Txt5p5, Txt15}
WhenButtons        == {"now", "year"}
FrequencyButtons   == {"monthly", "weekly"}

\* saved / shared plans handed to applyPlanData (None: the field is absent)
PlanPayday ==
  [currentAge |-> Some(Txt60), retirementAge |-> Some(Txt61),
   startingAmount |-> Some(TxtDollar1000), contributionPerPayday |-> Some(Txt100),
   annualRatePct |-> Some(Txt7), frequencyKey |-> Some("daily"),
   windfallAmount |-> Some(Txt500), windfallWhen |-> Some("payday"),
   windfallAtYear |-> None, windfallAtAge |-> None, windfallAtPayday |-> Some(Txt3)]
PlanAge ==
  [currentAge |-> Some(Txt64), retirementAge |-> None,
   startingAmount |-> None, contributionPerPayday |-> None,
   annualRatePct |-> None, frequencyKey |-> Some("fortnightly"),
   windfallAmount |-> Some(Txt50), windfallWhen |-> Some("age"),
   windfallAtYear |-> None, windfallAtAge |-> Some(Txt30), windfallAtPayday |-> None]
PlanYear ==
  [currentAge |-> None, retirementAge |-> None,
   startingAmount |-> None, contributionPerPayday |-> None,
   annualRatePct |-> None, frequencyKey |-> None,
   windfallAmount |-> Some(Txt500), windfallWhen |-> Some("year"),
   windfallAtYear |-> Some(Txt2), windfallAtAge |-> None, windfallAtPayday |-> None]
Plans == {PlanPayday, PlanAge, PlanYear}

MaxEvents == 2

form ==
  [currentAge |-> currentAge, retirementAge |-> retirementAge,
   targetAgeManual |-> targetAgeManual, startingAmount |-> startingAmount,
   contributionPerPayday |-> contributionPerPayday, annualRatePct |-> annualRatePct,
   frequencyKey |-> frequencyKey, windfallAmount |-> windfallAmount,
   windfallOpen |-> windfallOpen, windfallWhen |-> windfallWhen,
   windfallAtYear |-> windfallAtYear, windfallAtAge |-> windfallAtAge,
   windfallAtPayday |-> windfallAtPayday]

\* the useState initial values (also what the Reset button sets)
formDefaults ==
  [currentAge |-> Txt35, retirementAge |-> Txt65, targetAgeManual |-> FALSE,
   startingAmount |-> Txt0, contributionPerPayday |-> Txt50, annualRatePct |-> Txt7,
   frequencyKey |-> "biweekly", windfallAmount |-> Txt0, windfallOpen |-> FALSE,
   windfallWhen |-> "none", windfallAtYear |-> Txt1, windfallAtAge |-> Txt45,
   windfallAtPayday |-> Txt1]

\* the form state is set to the record f
SetForm(f) ==
  /\ currentAge' = f.currentAge
  /\ retirementAge' = f.retirementAge
  /\ targetAgeManual' = f.targetAgeManual
  /\ startingAmount' = f.startingAmount
  /\ contributionPerPayday' = f.contributionPerPayday
  /\ annualRatePct' = f.annualRatePct
  /\ frequencyKey' = f.frequencyKey
  /\ windfallAmount' = f.windfallAmount
  /\ windfallOpen' = f.windfallOpen
  /\ windfallWhen' = f.windfallWhen
  /\ windfallAtYear' = f.windfallAtYear
  /\ windfallAtAge' = f.windfallAtAge
  /\ windfallAtPayday' = f.windfallAtPayday

\* no pure function is being called directly
NoCall == fn = "" /\ args = None /\ result = None /\ prev = None

\* App after its first render: useState initial values, memos computed,
\* every effect pending (mount)
AppInit ==
  /\ currentAge = formDefaults.currentAge
  /\ retirementAge = formDefaults.retirementAge
  /\ targetAgeManual = formDefaults.targetAgeManual
  /\ startingAmount = formDefaults.startingAmount
  /\ contributionPerPayday = formDefaults.contributionPerPayday
  /\ annualRatePct = formDefaults.annualRatePct
  /\ frequencyKey = formDefaults.frequencyKey
  /\ windfallAmount = formDefaults.windfallAmount
  /\ windfallOpen = formDefaults.windfallOpen
  /\ windfallWhen = formDefaults.windfallWhen
  /\ windfallAtYear = formDefaults.windfallAtYear
  /\ windfallAtAge = formDefaults.windfallAtAge
  /\ windfallAtPayday = formDefaults.windfallAtPayday
  /\ yMaxDisplay = 0
  /\ scaleResetToken = 0
  /\ lastScaleResetToken = 0
  /\ projectionSingle = memoProjectionSingle
  /\ computedYMax = memoComputedYMax(projectionSingle, memoProjectionCompare)
  /\ deps = effectDeps(computedYMax)
  /\ pendingEffects = EffectNames
  /\ phase = "effects"
  /\ lastCycle = None
  /\ nEvents = 0
  /\ boundaryError = None

Init == AppInit /\ NoCall

\* a user event: handled when the previous update has settled; sets state
\* and schedules a render.  The controls are children of the ErrorBoundary,
\* which renders them only while it holds no error.
UserEvent ==
  /\ phase = "idle"
  /\ boundaryError = None
  /\ nEvents < MaxEvents
  /\ nEvents' = nEvents + 1
  /\ phase' = "dirty"
  /\ lastCycle' = None
  /\ UNCHANGED <<memoVars, deps, pendingEffects, lastScaleResetToken, boundaryError, callVars>>

\* Current age input, onChange
TypeCurrentAge ==
  \E t \in CurrentAgeTexts :
    UserEvent /\ SetForm([form EXCEPT !.currentAge = t])
              /\ UNCHANGED <<yMaxDisplay, scaleResetToken>>

\* Current age input, onBlur
BlurCurrentAge ==
  /\ UserEvent
  /\ SetForm([form EXCEPT
       !.currentAge = IntToText(clampInt(Some(parseNum(currentAge)), 0, 120))])
  /\ UNCHANGED <<yMaxDisplay, scaleResetToken>>

\* Target age input, onChange
TypeRetirementAge ==
  \E t \in RetirementAgeTexts :
    UserEvent /\ SetForm([form EXCEPT !.targetAgeManual = TRUE, !.retirementAge = t])
              /\ UNCHANGED <<yMaxDisplay, scaleResetToken>>

\* Target age input, onBlur
BlurRetirementAge ==
  /\ UserEvent
  /\ SetForm([form EXCEPT
       !.retirementAge = IntToText(clampInt(Some(parseNum(retirementAge)), 0, 120))])
  /\ UNCHANGED <<yMaxDisplay, scaleResetToken>>

\* pay frequency buttons
ClickFrequency ==
  \E k \in FrequencyButtons :
    UserEvent /\ SetForm([form EXCEPT !.frequencyKey = k])
              /\ UNCHANGED <<yMaxDisplay, scaleResetToken>>

\* Starting balance input, onChange
TypeStartingAmount ==
  \E t \in StartingTexts :
    UserEvent /\ SetForm([form EXCEPT !.startingAmount = t])
              /\ UNCHANGED <<yMaxDisplay, scaleResetToken>>

\* Save each payday input, onChange
TypeContribution ==
  \E t \in ContributionTexts :
    UserEvent /\ SetForm([form EXCEPT !.contributionPerPayday = t])
              /\ UNCHANGED <<yMaxDisplay, scaleResetToken>>

\* Windfall amount input (shown while windfallOpen), onChange
TypeWindfallAmount ==
  \E t \in WindfallTexts :
    UserEvent /\ windfallOpen
              /\ SetForm([form EXCEPT !.windfallAmount = t])
              /\ UNCHANGED <<yMaxDisplay, scaleResetToken>>

\* "Next payday" / "In year..." buttons (shown while windfallOpen)
ClickWindfallWhen ==
  \E w \in WhenButtons :
    UserEvent /\ windfallOpen
              /\ SetForm([form EXCEPT !.windfallWhen = w])
              /\ UNCHANGED <<yMaxDisplay, scaleResetToken>>

\* Windfall year input (shown while windfallWhen is "year"), onChange
TypeWindfallAtYear ==
  \E t \in WindfallYearTexts :
    UserEvent /\ windfallOpen /\ windfallWhen = "year"
              /\ SetForm([form EXCEPT !.windfallAtYear = t])
              /\ UNCHANGED <<yMaxDisplay, scaleResetToken>>

\* "Add windfall" / "Hide windfall" quick button
ToggleWindfall ==
  /\ UserEvent
  /\ IF windfallOpen
     THEN SetForm([form EXCEPT !.windfallAmount = Txt0, !.windfallWhen = "none",
                               !.windfallAtYear = Txt1, !.windfallAtAge = Txt45,
                               !.windfallAtPayday = Txt1, !.windfallOpen = FALSE])
     ELSE SetForm([form EXCEPT !.windfallOpen = TRUE,
                               !.windfallWhen = IF windfallWhen = "none" THEN "now"
                                                ELSE windfallWhen])
  /\ UNCHANGED <<yMaxDisplay, scaleResetToken>>

\* interest rate slider, onChange
ChangeRate ==
  \E v \in SliderValues :
    UserEvent
    /\ SetForm([form EXCEPT
         !.annualRatePct = NumToText(clamp(parseNum(v), 1 * NumScale, 15 * NumScale))])
    /\ UNCHANGED <<yMaxDisplay, scaleResetToken>>

\* Reset button
ResetClick ==
  /\ UserEvent
  /\ SetForm(formDefaults)
  /\ yMaxDisplay' = 0
  /\ scaleResetToken' = scaleResetToken + 1

\* "Refit scale" button
RefitScaleClick ==
  /\ UserEvent
  /\ scaleResetToken' = scaleResetToken + 1
  /\ UNCHANGED <<formVars, yMaxDisplay>>

\* loadSavedPlan(entry) -> applyPlanData(entry.data)
LoadPlan ==
  \E p \in Plans :
    LET pick(field, old) == IF p[field] # None THEN The(p[field]) ELSE old
        wfAmt  == parseNum(IF p.windfallAmount # None THEN The(p.windfallAmount) ELSE Txt0)
        wfWhen == IF p.windfallWhen # None THEN The(p.windfallWhen) ELSE "none"
    IN  /\ UserEvent
        /\ SetForm(
             [currentAge |-> pick("currentAge", currentAge),
              retirementAge |-> pick("retirementAge", retirementAge),
              targetAgeManual |-> IF p.retirementAge # None THEN TRUE ELSE targetAgeManual,
              startingAmount |-> pick("startingAmount", startingAmount),
              contributionPerPayday |-> pick("contributionPerPayday", contributionPerPayday),
              annualRatePct |-> pick("annualRatePct", annualRatePct),
              frequencyKey |-> pick("frequencyKey", frequencyKey),
              windfallAmount |-> pick("windfallAmount", windfallAmount),
              windfallOpen |-> IF wfAmt > 0 \/ wfWhen # "none" THEN TRUE ELSE windfallOpen,
              windfallWhen |-> pick("windfallWhen", windfallWhen),
              windfallAtYear |-> pick("windfallAtYear", windfallAtYear),
              windfallAtAge |-> pick("windfallAtAge", windfallAtAge),
              windfallAtPayday |-> pick("windfallAtPayday", windfallAtPayday)])
        /\ yMaxDisplay' = 0
        /\ scaleResetToken' = scaleResetToken + 1

\* a render of App: the memos are recomputed and the effects whose
\* dependencies changed are scheduled
Render ==
  /\ phase = "dirty"
  /\ projectionSingle' = memoProjectionSingle
  /\ computedYMax' = memoComputedYMax(projectionSingle', memoProjectionCompare)
  /\ deps' = effectDeps(computedYMax')
  /\ pendingEffects' = {e \in EffectNames : deps'[e] # deps[e]}
  /\ phase' = IF pendingEffects' = {} THEN "idle" ELSE "effects"
  /\ UNCHANGED <<formVars, scaleVars, lastCycle, nEvents, boundaryError, callVars>>

\* RunEffects with a target-age effect that does not return early when the
\* target age was edited by hand
RunEffectsIgnoreManual ==
  /\ phase = "effects"
  /\ LET ca == clampInt(Some(parseNum(currentAge)), 0, 120)
     IN  retirementAge' =
           IF "targetAge" \in pendingEffects
           THEN (IF ca > 65 THEN IntToText(ca) ELSE Txt65)
           ELSE retirementAge
  /\ windfallOpen' =
       IF /\ "windfallOpen" \in pendingEffects
          /\ (parseNum(windfallAmount) > 0 \/ windfallWhen # "none")
       THEN TRUE ELSE windfallOpen
  /\ IF "yMax" \in pendingEffects
     THEN /\ yMaxDisplay' = yMaxUpdater(yMaxDisplay, computedYMax,
                                        lastScaleResetToken # scaleResetToken)
          /\ lastScaleResetToken' = scaleResetToken
          /\ lastCycle' = Some([prevMax |-> yMaxDisplay, computedMax |-> computedYMax,
                                reset |-> lastScaleResetToken # scaleResetToken])
     ELSE /\ lastCycle' = None
          /\ UNCHANGED <<yMaxDisplay, lastScaleResetToken>>
  /\ pendingEffects' = {}
  /\ phase' = IF retirementAge' # retirementAge \/ windfallOpen' # windfallOpen
              THEN "dirty" ELSE "idle"
  /\ UNCHANGED <<currentAge, targetAgeManual, startingAmount, contributionPerPayday,
                 annualRatePct, frequencyKey, windfallAmount, windfallWhen,
                 windfallAtYear, windfallAtAge, windfallAtPayday,
                 scaleResetToken, memoVars, deps, nEvents, boundaryError, callVars>>

\* the effects scheduled by the last render run, in declaration order:
\* default target age, auto-open windfall, chart scale
RunEffects ==
  /\ phase = "effects"
  /\ LET ca == clampInt(Some(parseNum(currentAge)), 0, 120)
     IN  retirementAge' =
           IF "targetAge" \in pendingEffects /\ ~targetAgeManual
           THEN (IF ca > 65 THEN IntToText(ca) ELSE Txt65)
           ELSE retirementAge
  /\ windfallOpen' =
       IF /\ "windfallOpen" \in pendingEffects
          /\ (parseNum(windfallAmount) > 0 \/ windfallWhen # "none")
       THEN TRUE ELSE windfallOpen
  /\ IF "yMax" \in pendingEffects
     THEN /\ yMaxDisplay' = yMaxUpdater(yMaxDisplay, computedYMax,
                                        lastScaleResetToken # scaleResetToken)
          /\ lastScaleResetToken' = scaleResetToken
          /\ lastCycle' = Some([prevMax |-> yMaxDisplay, computedMax |-> computedYMax,
                                reset |-> lastScaleResetToken # scaleResetToken])
     ELSE /\ lastCycle' = None
          /\ UNCHANGED <<yMaxDisplay, lastScaleResetToken>>
  /\ pendingEffects' = {}
  /\ phase' = IF retirementAge' # retirementAge \/ windfallOpen' # windfallOpen
              THEN "dirty" ELSE "idle"
  /\ UNCHANGED <<currentAge, targetAgeManual, startingAmount, contributionPerPayday,
                 annualRatePct, frequencyKey, windfallAmount, windfallWhen,
                 windfallAtYear, windfallAtAge, windfallAtPayday,
                 scaleResetToken, memoVars, deps, nEvents, boundaryError, callVars>>

Next ==
  \/ TypeCurrentAge \/ BlurCurrentAge \/ TypeRetirementAge \/ BlurRetirementAge
  \/ ClickFrequency \/ TypeStartingAmount \/ TypeContribution
  \/ TypeWindfallAmount \/ ClickWindfallWhen \/ TypeWindfallAtYear \/ ToggleWindfall
  \/ ChangeRate \/ ResetClick \/ RefitScaleClick \/ LoadPlan
  \/ Render \/ RunEffects

Spec == Init /\ [][Next]_vars

(***************************************************************************)
(* Direct calls of computeProjection                                       *)
(***************************************************************************)
MaxYears == 1

ProjectionInputs ==
  [currentAge            : {60 * NumScale},
   retirementAge         : {(60 + y) * NumScale : y \in -1..MaxYears} \cup {6050},
   startingAmount        : {0, 1000 * NumScale, -200 * NumScale},
   contributionPerPayday : {0, 100 * NumScale, -50 * NumScale},
   annualRatePct         : {0, 7 * NumScale},
   payPeriodsPerYear     : {0, 1, 12, 26, 365},
   windfallAmount        : {0, 500 * NumScale},
   windfallAtPeriod      : {None, Some(1), Some(12), Some(1000)},
   maxPoints             : {None, Some(0), Some(1), Some(3), Some(5), Some(240)}]

ProjectionInit ==
  /\ AppInit
  /\ fn = "computeProjection"
  /\ args \in ProjectionInputs
  /\ result = None
  /\ prev = None

\* computeProjection(args)
CallComputeProjection ==
  /\ fn = "computeProjection"
  /\ result = None
  /\ result' = Some(computeProjection(args))
  /\ UNCHANGED <<formVars, scaleVars, memoVars, cycleVars, fn, args, prev>>

\* computeProjection is called again with the same arguments but maxPoints
RecallWithMaxPoints ==
  /\ fn = "computeProjection"
  /\ result # None
  /\ prev = None
  /\ \E m \in {None, Some(0), Some(1), Some(3), Some(5), Some(240)} :
       /\ m # args.maxPoints
       /\ args' = [args EXCEPT !.maxPoints = m]
       /\ result' = Some(computeProjection(args'))
  /\ prev' = Some([args |-> args, result |-> The(result)])
  /\ UNCHANGED <<formVars, scaleVars, memoVars, cycleVars, fn>>

NextProjection == CallComputeProjection \/ RecallWithMaxPoints

SpecProjection == ProjectionInit /\ [][NextProjection]_vars

\* ---- claims about computeProjection ----
CallDone(name) == fn = name /\ result # None

\* the maxPoints in effect for a call (undefined takes the default)
EffectiveMaxPoints(a) == IF a.maxPoints = None THEN DefaultMaxPoints ELSE The(a.maxPoints)

CeilDiv(n, d) == IF n % d = 0 THEN n \div d ELSE n \div d + 1

\* C1: for every input, the result of computeProjection satisfies
\* finalBalance - finalContrib - startingAmount = finalInterest, and every
\* emitted point satisfies interestEarned = balance - startingAmount - totalContrib.
C1_AccountingIdentity ==
  CallDone("computeProjection") =>
    LET r == The(result)
    IN  /\ r.finalBalance - r.finalContrib - args.startingAmount = r.finalInterest
        /\ \A k \in 1..Len(r.points) :
             r.points[k].interestEarned =
               r.points[k].balance - args.startingAmount - r.points[k].totalContrib

\* a run with a starting balance, a windfall and interest earned over several points
C1_Witness ==
  /\ CallDone("computeProjection")
  /\ args.startingAmount # 0
  /\ The(result).finalInterest > 0
  /\ The(result).finalContrib > args.windfallAmount
  /\ args.windfallAmount > 0
  /\ Len(The(result).points) > 2

\* C3: with maxPoints = 0 the result has exactly totalPeriods + 1 points; with
\* maxPoints = M > 0 the points include periodIndex 0 and periodIndex
\* totalPeriods and number at most floor(totalPeriods / stride) + 2, where
\* stride = max(1, ceil(totalPeriods / M)).
C3_SamplingBounds ==
  CallDone("computeProjection") =>
    LET r      == The(result)
        pts    == r.points
        M      == EffectiveMaxPoints(args)
        stride == Max2(1, CeilDiv(r.totalPeriods, M))
    IN  /\ M = 0 => Len(pts) = r.totalPeriods + 1
        /\ M > 0 => /\ \E k \in 1..Len(pts) : pts[k].periodIndex = 0
                    /\ \E k \in 1..Len(pts) : pts[k].periodIndex = r.totalPeriods
                    /\ Len(pts) <= r.totalPeriods \div stride + 2

\* a sampled run whose last period is off the stride
C3_Witness ==
  /\ CallDone("computeProjection")
  /\ EffectiveMaxPoints(args) > 0
  /\ LET r      == The(result)
         stride == Max2(1, CeilDiv(r.totalPeriods, EffectiveMaxPoints(args)))
     IN  /\ stride > 1
         /\ r.totalPeriods % stride # 0
         /\ Len(r.points) = r.totalPeriods \div stride + 2

\* two calls of computeProjection whose arguments differ only in maxPoints
OnlyMaxPointsDiffers(a, b) ==
  /\ a.maxPoints # b.maxPoints
  /\ \A f \in DOMAIN a \ {"maxPoints"} : a[f] = b[f]

\* C4: two runs of computeProjection that differ only in maxPoints report the
\* same totalPeriods, finalBalance, finalContrib and finalInterest.
C4_SamplingKeepsTotals ==
  (CallDone("computeProjection") /\ prev # None
     /\ OnlyMaxPointsDiffers(The(prev).args, args)) =>
    LET p == The(prev).result
        r == The(result)
    IN  /\ p.totalPeriods = r.totalPeriods
        /\ p.finalBalance = r.finalBalance
        /\ p.finalContrib = r.finalContrib
        /\ p.finalInterest = r.finalInterest

\* a keep-all run and a sampled run of the same growing plan
C4_Witness ==
  /\ CallDone("computeProjection") /\ prev # None
  /\ OnlyMaxPointsDiffers(The(prev).args, args)
  /\ The(prev).args.maxPoints = Some(0)
  /\ Len(The(result).points) < Len(The(prev).result.points)
  /\ The(result).finalInterest > 0

(***************************************************************************)
(* Direct calls of windfallPeriodFromChoice                                *)
(***************************************************************************)
TxtNeg3    == <<"-", "3">>
Txt2p5     == <<"2", ".", "5">>
Txt9999999 == <<"9", "9", "9", "9", "9", "9", "9">>

MaxSchedPeriods == 30

WindfallTimingTexts == {TxtEmpty, TxtAbc, TxtNeg3, Txt2p5, Txt9999999}
WindfallAgeTexts    == {TxtAbc, Txt30, Txt45, Txt9999999}
WindfallChoices ==
  [when              : {"", "none", "now", "year", "age", "payday", "later"},
   atYear            : WindfallTimingTexts,
   atAge             : WindfallAgeTexts,
   atPayday          : WindfallTimingTexts,
   currentAge        : {0, 35},
   payPeriodsPerYear : {12, 365},
   totalPeriods      : {0, 1, MaxSchedPeriods, 780}]

WindfallInit ==
  /\ AppInit
  /\ fn = "windfallPeriodFromChoice"
  /\ args \in WindfallChoices
  /\ result = None
  /\ prev = None

\* windfallPeriodFromChoice(args)
CallWindfallPeriodFromChoice ==
  /\ fn = "windfallPeriodFromChoice"
  /\ result = None
  /\ result' = Some(windfallPeriodFromChoice(args))
  /\ UNCHANGED <<formVars, scaleVars, memoVars, cycleVars, fn, args, prev>>

NextWindfall == CallWindfallPeriodFromChoice

SpecWindfall == WindfallInit /\ [][NextWindfall]_vars

\* C5: whenever totalPeriods >= 1, windfallPeriodFromChoice resolves every
\* policy other than None (now, year, age, payday), for every value of
\* atYear / atAge / atPayday, to an integer in 1..totalPeriods, and the
\* NextPayday policy ("now") to exactly 1.
C5_WindfallInRange ==
  (CallDone("windfallPeriodFromChoice") /\ args.totalPeriods >= 1
     /\ args.when \in {"now", "year", "age", "payday"}) =>
    /\ The(result) # None
    /\ The(The(result)) \in 1..args.totalPeriods
    /\ args.when = "now" => The(result) = Some(1)

\* a payday policy with a huge index, clamped down to the last period
C5_Witness ==
  /\ CallDone("windfallPeriodFromChoice")
  /\ args.when = "payday"
  /\ args.atPayday = Txt9999999
  /\ args.totalPeriods = MaxSchedPeriods
  /\ The(result) = Some(MaxSchedPeriods)

\* ---- claims about the projection the application produces ----

\* C2: for every projection the application can produce (any text typed into
\* the contribution, starting-balance and windfall fields, parsed by
\* parseNum), totalContrib is non-decreasing across points in index order.
C2_ContribNonDecreasing ==
  \A k \in 1..(Len(projectionSingle.points) - 1) :
    projectionSingle.points[k].totalContrib <= projectionSingle.points[k + 1].totalContrib

\* C6: the scheduler returns "no windfall" (an absent period) whenever the
\* windfall amount is <= 0, the policy is None, or totalPeriods = 0, for
\* every policy including NextPayday.
C6_NoWindfallWhenInactive ==
  (phase # "dirty" /\ (\/ parseNum(windfallAmount) <= 0
                       \/ windfallWhen = "none"
                       \/ memoTotalPeriods = 0)) =>
    memoWindfallAtPeriod = None

(***************************************************************************)
(* The chart-scale cycle driven by the series maximum                      *)
(*                                                                         *)
(* The form edit and the projections it yields are abstracted to the       *)
(* maximum m of the plotted series; computedYMax is niceRoundUp of it.     *)
(***************************************************************************)
MaxResets == 1

SeriesMaxValues == {d * NumScale : d \in {0, 90, 400, 900}}

\* a render commits with computedYMax c and reset token tok: the scale
\* effect is scheduled when its dependencies changed
CommitScaleRender(c, tok) ==
  /\ phase = "idle"
  /\ boundaryError = None
  /\ computedYMax' = c
  /\ deps' = [deps EXCEPT !.yMax = <<c, tok>>]
  /\ pendingEffects' = IF deps'.yMax # deps.yMax THEN {"yMax"} ELSE {}
  /\ phase' = IF pendingEffects' = {} THEN "idle" ELSE "effects"
  /\ lastCycle' = None
  /\ UNCHANGED <<formVars, projectionSingle, lastScaleResetToken, nEvents, callVars>>

\* an edit of the form after which the series maximum is m
EditSeries ==
  \E m \in SeriesMaxValues :
    /\ CommitScaleRender(niceRoundUp(Max2(NumScale, m)), scaleResetToken)
    /\ UNCHANGED <<yMaxDisplay, scaleResetToken, boundaryError>>

\* "Refit scale" button, and the render that follows
RefitScale ==
  /\ scaleResetToken < MaxResets
  /\ scaleResetToken' = scaleResetToken + 1
  /\ CommitScaleRender(computedYMax, scaleResetToken')
  /\ UNCHANGED <<yMaxDisplay, boundaryError>>

\* Reset button or applyPlanData (setYMaxDisplay(0), token + 1), and the
\* render that follows, with series maximum m
ResetOrLoadSeries ==
  \E m \in SeriesMaxValues :
    /\ scaleResetToken < MaxResets
    /\ scaleResetToken' = scaleResetToken + 1
    /\ yMaxDisplay' = 0
    /\ CommitScaleRender(niceRoundUp(Max2(NumScale, m)), scaleResetToken')
    /\ UNCHANGED boundaryError

NextEasing == EditSeries \/ RefitScale \/ ResetOrLoadSeries \/ RunEffects

SpecEasing == Init /\ [][NextEasing]_vars

\* C7: after every cycle of the scale effect (reset, first initialisation,
\* snap-up or ease-down) yMaxDisplay >= the computedYMax supplied to the
\* cycle; when computedYMax >= the previous yMaxDisplay, or the previous
\* yMaxDisplay is 0 (uninitialised), the new yMaxDisplay equals computedYMax.
C7_EasingNeverClips ==
  lastCycle # None =>
    LET c == The(lastCycle)
    IN  /\ yMaxDisplay >= c.computedMax
        /\ (c.prevMax = 0 \/ c.computedMax >= c.prevMax) => yMaxDisplay = c.computedMax

\* a snap-up: the data maximum rose above an initialised yMaxDisplay
C7_Witness ==
  /\ lastCycle # None
  /\ ~The(lastCycle).reset
  /\ The(lastCycle).prevMax # 0
  /\ The(lastCycle).computedMax > The(lastCycle).prevMax
  /\ yMaxDisplay = The(lastCycle).computedMax

\* C8: when yMaxDisplay is initialised, no reset was requested and
\* computedYMax < yMaxDisplay, one cycle sets yMaxDisplay to
\* max(computedYMax, 0.96 * yMaxDisplay) if computedYMax < 0.75 * yMaxDisplay
\* and to max(computedYMax, 0.985 * yMaxDisplay) otherwise; the new value is
\* strictly below the old one and is computedYMax only when the decayed
\* value is not above it (1000 with computedYMax 400 becomes 960).
C8_EaseDownStep ==
  /\ yMaxUpdater(1000 * NumScale, 400 * NumScale, FALSE) = 960 * NumScale
  /\ (lastCycle # None /\ ~The(lastCycle).reset /\ The(lastCycle).prevMax # 0
        /\ The(lastCycle).computedMax < The(lastCycle).prevMax) =>
       LET c       == The(lastCycle)
           decayed == IF 100 * c.computedMax < 75 * c.prevMax
                      THEN (c.prevMax * 96) \div 100
                      ELSE (c.prevMax * 985) \div 1000
       IN  /\ yMaxDisplay = Max2(c.computedMax, decayed)
           /\ yMaxDisplay < c.prevMax
           /\ yMaxDisplay = c.computedMax => decayed <= c.computedMax

\* the slow rate: the target is within a quarter of yMaxDisplay and the
\* decayed value is still above it
C8_Witness ==
  /\ lastCycle # None /\ ~The(lastCycle).reset /\ The(lastCycle).prevMax # 0
  /\ The(lastCycle).computedMax < The(lastCycle).prevMax
  /\ 100 * The(lastCycle).computedMax >= 75 * The(lastCycle).prevMax
  /\ yMaxDisplay = (The(lastCycle).prevMax * 985) \div 1000
  /\ yMaxDisplay > The(lastCycle).computedMax

\* the fast rate, as in Scenario D: 1000 eases to 960, not to the target
C8_WitnessFast ==
  /\ lastCycle # None /\ ~The(lastCycle).reset
  /\ The(lastCycle).prevMax = 1000 * NumScale
  /\ The(lastCycle).computedMax = 500 * NumScale
  /\ yMaxDisplay = 960 * NumScale

\* C9: in the first cycle after the reset token has changed, yMaxDisplay is
\* set to exactly computedYMax, even when that is smaller than the previous
\* yMaxDisplay; the change is consumed (lastScaleResetToken catches up), so
\* a later cycle is a reset cycle only after a new token change.
C9_ManualRefit ==
  /\ lastCycle # None =>
       /\ lastScaleResetToken = scaleResetToken
       /\ The(lastCycle).reset => yMaxDisplay = The(lastCycle).computedMax
  /\ phase = "idle" => lastScaleResetToken = scaleResetToken

\* a refit while the axis was still easing down
C9_Witness ==
  /\ lastCycle # None
  /\ The(lastCycle).reset
  /\ The(lastCycle).prevMax # 0
  /\ The(lastCycle).computedMax < The(lastCycle).prevMax
  /\ yMaxDisplay = The(lastCycle).computedMax

\* a cycle without reset after an earlier refit: the axis eases again
C9_WitnessConsumed ==
  /\ lastCycle # None
  /\ ~The(lastCycle).reset
  /\ scaleResetToken > 0
  /\ The(lastCycle).prevMax # 0
  /\ yMaxDisplay > The(lastCycle).computedMax

(***************************************************************************)
(* Direct calls of makeLogTicks                                            *)
(***************************************************************************)
MaxTickDollars == 120

TickMaxValues ==
  {d * NumScale : d \in 0..MaxTickDollars}
    \cup {1234, 99999, 5000 * NumScale, 1000000 * NumScale}

TicksInit ==
  /\ AppInit
  /\ fn = "makeLogTicks"
  /\ args \in TickMaxValues
  /\ result = None
  /\ prev = None

\* makeLogTicks(args)
CallMakeLogTicks ==
  /\ fn = "makeLogTicks"
  /\ result = None
  /\ result' = Some(makeLogTicks(args))
  /\ UNCHANGED <<formVars, scaleVars, memoVars, cycleVars, fn, args, prev>>

NextTicks == CallMakeLogTicks

SpecTicks == TicksInit /\ [][NextTicks]_vars

\* C10: makeLogTicks returns at most 7 ticks for every max (including large
\* maxima spanning many decades such as 5000 or 1,000,000).
C10_LogTicksAtMostSeven ==
  CallDone("makeLogTicks") => Len(The(result)) <= 7

(***************************************************************************)
(* Direct calls of pickTicks (with niceStep and niceCeil)                  *)
(***************************************************************************)
\* function niceStep(span, targetTicks), for a span that is a number (an
\* absent span is a non-finite one); raw = span / max(1, targetTicks) and
\* pow is the largest power of ten <= raw
niceStep(span, targetTicks) ==
  IF span = None THEN NumScale
  ELSE IF The(span) <= 0 THEN NumScale
  ELSE LET t    == Max2(1, targetTicks)
           pow  == Pow10Floor(The(span) \div t, 1)
           nice == IF The(span) <= pow * t THEN 1
                   ELSE IF The(span) <= 2 * pow * t THEN 2
                   ELSE IF The(span) <= 5 * pow * t THEN 5 ELSE 10
       IN  nice * pow

\* function niceCeil(n)
niceCeil(n) ==
  IF n = None THEN NumScale
  ELSE IF The(n) <= 0 THEN NumScale
  ELSE LET pow  == Pow10Floor(The(n), 1)
           nice == IF The(n) <= pow THEN 1 ELSE IF The(n) <= 2 * pow THEN 2
                   ELSE IF The(n) <= 5 * pow THEN 5 ELSE 10
       IN  nice * pow

DefaultTargetTicks == 4

\* function pickTicks(min, max, targetTicks = 4); min and max are numbers
\* or absent (NaN, Infinity, -Infinity: not finite)
pickTicks(min, max, targetTicks) ==
  IF min = None \/ max = None THEN <<>>
  ELSE IF The(max) <= The(min) THEN <<>>
  ELSE LET span    == The(max) - The(min)
           step    == niceStep(Some(span),
                        IF targetTicks = None THEN DefaultTargetTicks ELSE The(targetTicks))
           niceMax == Max2(step, niceCeil(max))
           \* for (v = 0; v <= niceMax + step / 2; v += step)
           count   == (2 * niceMax + step) \div (2 * step) + 1
       IN  [k \in 1..count |-> (k - 1) * step]

PickTicksInputs ==
  [min         : {None, Some(0), Some(-200 * NumScale), Some(50 * NumScale)},
   max         : {None, Some(-100 * NumScale)}
                   \cup {Some(d * NumScale) : d \in {0, 1, 7, 50, 51, 90, 400, 1000}},
   targetTicks : {None, Some(0), Some(3)}]

\* degenerate and ordinary maxima handed to makeLogTicks
LogTickInputs == {-5 * NumScale, 0, 50, NumScale, 7 * NumScale, 400 * NumScale}

TickSafetyInit ==
  /\ AppInit
  /\ \/ fn = "pickTicks" /\ args \in PickTicksInputs
     \/ fn = "makeLogTicks" /\ args \in LogTickInputs
  /\ result = None
  /\ prev = None

\* pickTicks(args.min, args.max, args.targetTicks)
CallPickTicks ==
  /\ fn = "pickTicks"
  /\ result = None
  /\ result' = Some(pickTicks(args.min, args.max, args.targetTicks))
  /\ UNCHANGED <<formVars, scaleVars, memoVars, cycleVars, fn, args, prev>>

NextTickSafety == CallPickTicks \/ CallMakeLogTicks

SpecTickSafety == TickSafetyInit /\ [][NextTickSafety]_vars

\* C11: for every input, including degenerate ones (non-finite min or max,
\* max <= min, max <= 0), both pickTicks and makeLogTicks return a list that
\* contains the tick 0 (every entry of a returned list is a number of the
\* model, hence finite).
C11_TickSafety ==
  (CallDone("pickTicks") \/ CallDone("makeLogTicks")) => 0 \in Range(The(result))

(***************************************************************************)
(* More claims about direct calls of computeProjection                     *)
(***************************************************************************)
\* Scenario A: ages 60 -> 61, monthly, start 1000, contribution 100, rate 0,
\* no windfall, every point kept
ScenarioA ==
  [currentAge |-> 60 * NumScale, retirementAge |-> 61 * NumScale,
   startingAmount |-> 1000 * NumScale, contributionPerPayday |-> 100 * NumScale,
   annualRatePct |-> 0, payPeriodsPerYear |-> 12,
   windfallAmount |-> 0, windfallAtPeriod |-> None, maxPoints |-> Some(0)]

\* Scenario B: Scenario A plus a windfall of 500 at the next payday
ScenarioB ==
  [ScenarioA EXCEPT !.windfallAmount = 500 * NumScale, !.windfallAtPeriod = Some(1)]

\* C12: with annual rate 0 computeProjection yields finalInterest = 0, every
\* interestThisPeriod = 0, finalContrib = totalPeriods * contributionPerPayday
\* plus the windfall amount if a positive windfall is scheduled within
\* 1..totalPeriods, and finalBalance = startingAmount + finalContrib;
\* Scenario A gives totalPeriods 12, finalContrib 1200, finalBalance 2200 and
\* 13 points, Scenario B gives finalContrib 1700 and finalBalance 2700.
C12_ZeroRate ==
  /\ (CallDone("computeProjection") /\ args.annualRatePct = 0) =>
       LET r  == The(result)
           wf == IF /\ args.windfallAmount > 0
                    /\ args.windfallAtPeriod # None
                    /\ The(args.windfallAtPeriod) \in 1..r.totalPeriods
                 THEN args.windfallAmount ELSE 0
       IN  /\ r.finalInterest = 0
           /\ \A k \in 1..Len(r.points) : r.points[k].interestThisPeriod \subseteq {0}
           /\ r.finalContrib = r.totalPeriods * args.contributionPerPayday + wf
           /\ r.finalBalance = args.startingAmount + r.finalContrib
  /\ (CallDone("computeProjection") /\ args = ScenarioA) =>
       /\ The(result).totalPeriods = 12
       /\ The(result).finalContrib = 1200 * NumScale
       /\ The(result).finalInterest = 0
       /\ The(result).finalBalance = 2200 * NumScale
       /\ Len(The(result).points) = 13
  /\ (CallDone("computeProjection") /\ args = ScenarioB) =>
       /\ The(result).finalContrib = 1700 * NumScale
       /\ The(result).finalInterest = 0
       /\ The(result).finalBalance = 2700 * NumScale

\* Scenario B has been computed
C12_Witness ==
  /\ CallDone("computeProjection")
  /\ args = ScenarioB
  /\ The(result).finalBalance = 2700 * NumScale
  /\ Len(The(result).points) = 13

\* C13: when retirementAge <= currentAge (totalPeriods = 0) computeProjection
\* returns exactly one point, the period-0 point {periodIndex 0, balance
\* startingAmount, totalContrib 0, interestEarned 0}, with finalBalance =
\* startingAmount, finalContrib = 0 and finalInterest = 0, regardless of
\* contribution, rate, maxPoints, windfall amount or windfall period.
C13_ZeroHorizon ==
  (CallDone("computeProjection") /\ args.retirementAge <= args.currentAge) =>
    LET r == The(result)
    IN  /\ r.totalPeriods = 0
        /\ Len(r.points) = 1
        /\ r.points[1].periodIndex = 0
        /\ r.points[1].balance = args.startingAmount
        /\ r.points[1].totalContrib = 0
        /\ r.points[1].interestEarned = 0
        /\ r.finalBalance = args.startingAmount
        /\ r.finalContrib = 0
        /\ r.finalInterest = 0

\* a target age below the current age, with a contribution, a rate, a
\* starting balance and a windfall at the next payday
C13_Witness ==
  /\ CallDone("computeProjection")
  /\ args.retirementAge < args.currentAge
  /\ args.contributionPerPayday > 0
  /\ args.annualRatePct > 0
  /\ args.startingAmount > 0
  /\ args.windfallAmount > 0
  /\ args.windfallAtPeriod = Some(1)
  /\ args.payPeriodsPerYear = 365
  /\ The(result).finalBalance = args.startingAmount

(***************************************************************************)
(* More claims about the projection the application produces               *)
(***************************************************************************)
\* C14: ages are clamped to [0,120] before the core consumes them: for any
\* text typed into the Current age and Target age fields, the currentAge and
\* retirementAge values passed to computeProjection lie in [0,120], so
\* totalPeriods never exceeds 120 * 365.
C14_AgesClamped ==
  phase # "dirty" =>
    LET a == memoProjectionInput(memoBaseRate)
    IN  /\ a.currentAge >= 0 /\ a.currentAge <= 120 * NumScale
        /\ a.retirementAge >= 0 /\ a.retirementAge <= 120 * NumScale
        /\ projectionSingle.totalPeriods <= 120 * 365

(***************************************************************************)
(* The ErrorBoundary around the page                                       *)
(***************************************************************************)
\* an edit of the form after which the series maximum is m, and a
\* descendant of the boundary (a chart, a card) throws while rendering:
\* getDerivedStateFromError stores the error and the boundary renders its
\* notice instead of the page
EditSeriesThrows ==
  \E m \in SeriesMaxValues :
    /\ CommitScaleRender(niceRoundUp(Max2(NumScale, m)), scaleResetToken)
    /\ boundaryError' = Some("render error")
    /\ UNCHANGED <<yMaxDisplay, scaleResetToken>>

NextBoundary == EditSeries \/ EditSeriesThrows \/ RunEffects

\* scheduled effects run, and the user keeps editing while the controls
\* are shown
SpecBoundary == Init /\ [][NextBoundary]_vars /\ WF_vars(NextBoundary)

\* C15: a rendering failure does not block later recomputation: after the
\* error boundary has caught an error and shown its notice, the calculator
\* and chart are eventually rendered again (the error state is not
\* permanent).
C15_ErrorNotPermanent == (boundaryError # None) ~> (boundaryError = None)

(***************************************************************************)
(* Chart hover: onMouseMove of LineChart and CompareOverlayChart           *)
(***************************************************************************)
\* viewBox width and horizontal paddings of both charts
ChartW    == 920
ChartPadL == 56
ChartPadR == 20

\* hoverIndex with Math.floor in place of Math.round
hoverIndexFloor(x, width, n) ==
  LET innerX == clamp(x * ChartW, ChartPadL * width, (ChartW - ChartPadR) * width)
      idx    == ((innerX - ChartPadL * width) * (n - 1))
                  \div ((ChartW - ChartPadL - ChartPadR) * width)
  IN  Max2(0, Min2(n - 1, idx))

\* idxClamped of the onMouseMove handlers, for the pointer offset
\* x = e.clientX - rect.left, rect.width = width > 0 and a series of n >= 1
\* points; innerX is kept as a fraction over width
hoverIndex(x, width, n) ==
  LET innerX == clamp(x * ChartW, ChartPadL * width, (ChartW - ChartPadR) * width)
      idx    == RoundDiv((innerX - ChartPadL * width) * (n - 1),
                         (ChartW - ChartPadL - ChartPadR) * width)
  IN  Max2(0, Min2(n - 1, idx))

MaxHoverX == 95

HoverInputs ==
  [x : -3..MaxHoverX, width : {46, 92}, n : {1, 2, 13, 196}]

HoverInit ==
  /\ AppInit
  /\ fn = "hoverIndex"
  /\ args \in HoverInputs
  /\ result = None
  /\ prev = None

\* a mouse move over the chart
CallHoverIndex ==
  /\ fn = "hoverIndex"
  /\ result = None
  /\ result' = Some(hoverIndex(args.x, args.width, args.n))
  /\ UNCHANGED <<formVars, scaleVars, memoVars, cycleVars, fn, args, prev>>

\* the next mouse move over the same chart, at another position
MovePointer ==
  /\ fn = "hoverIndex"
  /\ result # None
  /\ prev = None
  /\ \E x \in -3..MaxHoverX :
       /\ x # args.x
       /\ args' = [args EXCEPT !.x = x]
       /\ result' = Some(hoverIndex(x, args.width, args.n))
  /\ prev' = Some([args |-> args, result |-> The(result)])
  /\ UNCHANGED <<formVars, scaleVars, memoVars, cycleVars, fn>>

NextHover == CallHoverIndex \/ MovePointer

SpecHover == HoverInit /\ [][NextHover]_vars

\* C16: for any pointer x position (including positions left or right of
\* the plot rectangle) and any non-empty series of n points, the resolved
\* index equals round(t * (n - 1)) with t the pointer fraction clamped to
\* [0,1], so it is always in [0, n - 1], is 0 at the left plot edge and
\* n - 1 at the right plot edge, and is non-decreasing in pointer x.
C16_HoverResolution ==
  CallDone("hoverIndex") =>
    LET plotW == (ChartW - ChartPadL - ChartPadR) * args.width
        \* t = tNum / plotW, the fraction of the plot rectangle left of the pointer
        tNum  == clamp(args.x * ChartW - ChartPadL * args.width, 0, plotW)
        r     == The(result)
    IN  /\ r = RoundDiv(tNum * (args.n - 1), plotW)
        /\ r \in 0..(args.n - 1)
        /\ args.x * ChartW <= ChartPadL * args.width => r = 0
        /\ args.x * ChartW >= (ChartW - ChartPadR) * args.width => r = args.n - 1
        /\ (prev # None /\ The(prev).args.x <= args.x) => The(prev).result <= r

\* two positions inside the plot rectangle, the first resolved by rounding
\* up, the second to a later point
C16_Witness ==
  /\ CallDone("hoverIndex") /\ prev # None
  /\ args.n = 13
  /\ The(prev).args.x < args.x
  /\ The(prev).result > 0
  /\ The(prev).result < The(result)
  /\ The(result) < args.n - 1
  /\ hoverIndexFloor(The(prev).args.x, args.width, args.n) < The(prev).result

(***************************************************************************)
(* The per-period rate at fine resolution                                  *)
(*                                                                         *)
(* rPerPeriod of computeProjection with growth factors kept to eight       *)
(* decimal places (FineScale), each product truncated; products are formed *)
(* from four-digit limbs so that no intermediate value exceeds 32 bits.    *)
(***************************************************************************)
FineScale == 100000000
LimbScale == 10000

\* floor(a * b / FineScale) for 0 <= a, b < 2 * FineScale
MulFine(a, b) ==
  LET aH  == a \div LimbScale
      aL  == a % LimbScale
      bH  == b \div LimbScale
      bL  == b % LimbScale
      mid == aH * bL + aL * bH
      low == aL * bL
  IN  aH * bH + (mid + low \div LimbScale) \div LimbScale

RECURSIVE growPeriods(_, _, _)
\* n passes of "balance = balance * (1 + rPerPeriod)" with no deposit, for
\* the growth factor g = 1 + rPerPeriod; the first half of the passes is
\* evaluated before the second
growPeriods(balance, g, n) ==
  IF n <= 0 THEN balance
  ELSE IF n = 1 THEN MulFine(balance, g)
  ELSE LET h     == n \div 2
           first == growPeriods(balance, g, h)
       IN  IF first >= 0 THEN growPeriods(first, g, n - h) ELSE first

RECURSIVE RootFine(_, _, _, _)
\* the largest g in lo..hi with g^n <= target (lo^n <= target)
RootFine(target, n, lo, hi) ==
  IF lo >= hi THEN lo
  ELSE LET mid == (lo + hi + 1) \div 2
       IN  IF growPeriods(FineScale, mid, n) <= target
           THEN RootFine(target, n, mid, hi)
           ELSE RootFine(target, n, lo, mid - 1)

\* rPerPeriodFine with the nominal rate rAnnual / ppy
rPerPeriodNominal(ratePct, ppy) ==
  LET rAnnual == ratePct * (FineScale \div (100 * NumScale))
  IN  IF ppy > 0 THEN rAnnual \div ppy ELSE 0

\* rPerPeriod = ppy > 0 ? Math.pow(1 + rAnnual, 1 / ppy) - 1 : 0, in
\* FineScale units, for rAnnual >= 0
rPerPeriodFine(ratePct, ppy) ==
  LET rAnnual == ratePct * (FineScale \div (100 * NumScale))
      onePlus == FineScale + rAnnual
  IN  IF ppy > 0
      THEN RootFine(onePlus, ppy, FineScale, FineScale + rAnnual \div ppy + 1) - FineScale
      ELSE 0

MaxRatePct == 15

CompoundingInputs ==
  [annualRatePct     : {p * NumScale : p \in 0..MaxRatePct} \cup {550, 725},
   payPeriodsPerYear : {-1, 0, 12, 26, 52, 365}]

CompoundingInit ==
  /\ AppInit
  /\ fn = "rPerPeriod"
  /\ args \in CompoundingInputs
  /\ result = None
  /\ prev = None

\* the per-period rate of computeProjection for the arguments, and a
\* balance of 1 grown with it over payPeriodsPerYear periods without deposits
CallRPerPeriod ==
  /\ fn = "rPerPeriod"
  /\ result = None
  /\ LET r == rPerPeriodFine(args.annualRatePct, args.payPeriodsPerYear)
     IN  result' = Some([rPerPeriod |-> r,
                         grown |-> growPeriods(FineScale, FineScale + r,
                                               args.payPeriodsPerYear)])
  /\ UNCHANGED <<formVars, scaleVars, memoVars, cycleVars, fn, args, prev>>

NextCompounding == CallRPerPeriod

SpecCompounding == CompoundingInit /\ [][NextCompounding]_vars

\* the truncation allowed over n products, in units of 1 / FineScale
CompoundTolerance(n) == 3 * n

\* C17: the per-period rate is rPerPeriod = (1 + annualRate)^(1 / ppy) - 1
\* (0 when ppy <= 0), so with zero contributions and no windfall, growing a
\* balance over exactly ppy periods multiplies it by (1 + annualRate), for
\* each frequency in {365, 52, 26, 12} (to within the truncation of the
\* products), and the rate used in the projections agrees with this rate
\* to within one unit of RateScale.
C17_AnnualEquivalence ==
  CallDone("rPerPeriod") =>
    LET r       == The(result)
        onePlus == FineScale + args.annualRatePct * (FineScale \div (100 * NumScale))
    IN  /\ args.payPeriodsPerYear <= 0 => r.rPerPeriod = 0
        /\ args.payPeriodsPerYear \in {365, 52, 26, 12} =>
             /\ r.grown <= onePlus
             /\ onePlus - r.grown <= CompoundTolerance(args.payPeriodsPerYear)
        /\ LET coarse == rPerPeriod(args.annualRatePct, args.payPeriodsPerYear)
                fine   == r.rPerPeriod \div (FineScale \div RateScale)
           IN  coarse - fine \in {0, 1}

\* seven per cent a year over 365 daily periods
C17_Witness ==
  /\ CallDone("rPerPeriod")
  /\ args.annualRatePct = 7 * NumScale
  /\ args.payPeriodsPerYear = 365
  /\ The(result).rPerPeriod > 18500 /\ The(result).rPerPeriod < 18600
  /\ The(result).grown > FineScale + 6999000

(***************************************************************************)
(* The loop of computeProjection, period by period                         *)
(***************************************************************************)
\* the sampling stride of a call: 1 when every point is kept
StrideOf(totalPeriods, M) == IF M <= 0 THEN 1 ELSE Max2(1, CeilDiv(totalPeriods, M))

\* C18: within each period i = 1..totalPeriods deposits precede growth:
\* balance_i = (balance_{i-1} + W [i is the windfall period and W > 0]
\* + contribution) * (1 + rPerPeriod), totalContrib_i = totalContrib_{i-1}
\* + the same deposits, and interestThisPeriod_i = balance_i - (balance_{i-1}
\* + the period's deposits); the windfall is added to both balance and
\* totalContrib and is never counted as interest.  (Checked on the runs
\* that keep every period's point.)
C18_DepositsPrecedeGrowth ==
  (CallDone("computeProjection")
     /\ StrideOf(The(result).totalPeriods, EffectiveMaxPoints(args)) = 1) =>
    LET r    == The(result)
        pts  == r.points
        rate == rPerPeriod(args.annualRatePct, args.payPeriodsPerYear)
    IN  /\ Len(pts) = r.totalPeriods + 1
        /\ \A i \in 1..r.totalPeriods :
             LET W        == IF args.windfallAmount > 0 /\ args.windfallAtPeriod = Some(i)
                             THEN args.windfallAmount ELSE 0
                 deposits == W + args.contributionPerPayday
                 funded   == pts[i].balance + deposits
             IN  /\ pts[i + 1].periodIndex = i
                 /\ pts[i + 1].balance = funded + MulDivFloor(funded, rate, RateScale)
                 /\ pts[i + 1].totalContrib = pts[i].totalContrib + deposits
                 /\ pts[i + 1].interestThisPeriod = Some(pts[i + 1].balance - funded)

\* a windfall in the twelfth period of a growing plan with contributions
C18_Witness ==
  /\ CallDone("computeProjection")
  /\ args.maxPoints = Some(0)
  /\ args.windfallAmount > 0
  /\ args.windfallAtPeriod = Some(12)
  /\ args.contributionPerPayday > 0
  /\ The(result).totalPeriods > 12
  /\ LET pts == The(result).points
     IN  /\ pts[13].totalContrib - pts[12].totalContrib
              = args.windfallAmount + args.contributionPerPayday
         /\ The(pts[13].interestThisPeriod) > 0
         /\ The(pts[13].interestThisPeriod) < args.windfallAmount

\* C19: the periodIndex values in points are exactly { i in 0..totalPeriods :
\* i = 0 or i = totalPeriods or i mod stride = 0 }, listed in strictly
\* increasing order with no duplicate; consecutive indices differ by exactly
\* stride except the gap before the final point, which is between 1 and
\* stride (totalPeriods 780 with maxPoints 240 gives stride 4 and indices
\* 0, 4, ..., 780: 196 points).
C19_SampledIndices ==
  /\ CallDone("computeProjection") =>
       LET r      == The(result)
           n      == Len(r.points)
           idx    == [k \in 1..n |-> r.points[k].periodIndex]
           stride == StrideOf(r.totalPeriods, EffectiveMaxPoints(args))
       IN  /\ Range(idx) = {i \in 0..r.totalPeriods :
                              i = 0 \/ i = r.totalPeriods \/ i % stride = 0}
           /\ \A k \in 1..(n - 1) : idx[k] < idx[k + 1]
           /\ \A k \in 1..(n - 2) : idx[k + 1] - idx[k] = stride
           /\ n >= 2 => idx[n] - idx[n - 1] \in 1..stride
  /\ (projectionSingle.totalPeriods = 780 /\ fn = "computeProjection") =>
       /\ StrideOf(780, 240) = 4
       /\ Len(projectionSingle.points) = 196
       /\ \A k \in 1..196 : projectionSingle.points[k].periodIndex = 4 * (k - 1)

\* a sampled run whose last period falls on the stride: it is emitted once
C19_Witness ==
  /\ CallDone("computeProjection")
  /\ projectionSingle.totalPeriods = 780
  /\ LET r      == The(result)
         stride == StrideOf(r.totalPeriods, EffectiveMaxPoints(args))
     IN  /\ stride > 2
         /\ r.totalPeriods % stride = 0
         /\ Len(r.points) = r.totalPeriods \div stride + 1

(***************************************************************************)
(* The scheduler's formulas                                                *)
(***************************************************************************)
\* round(text) for a numeric text, low for a non-numeric one
RoundOr(text, low) ==
  IF Number(text) = NaN THEN low ELSE RoundDiv(The(Number(text)), NumScale)

\* C20: for totalPeriods >= 1 the scheduler computes
\*   AtYear(Y) = clamp(clamp(round(Y), 1, 80) * periodsPerYear, 1, totalPeriods),
\*   AtAge(A)  = clamp((clamp(round(A), currentAge, currentAge + 80) - currentAge)
\*                     * periodsPerYear, 1, totalPeriods),
\*   so a target age at or below the current age resolves to period 1, and
\*   AtPaydayIndex(P) = clamp(round(P), 1, totalPeriods);
\* a non-numeric Y, A or P is treated as the lower bound of its clamp range.
C20_SchedulerFormulas ==
  (CallDone("windfallPeriodFromChoice") /\ args.totalPeriods >= 1) =>
    LET ppy   == args.payPeriodsPerYear
        total == args.totalPeriods
        cur   == args.currentAge
        year  == clamp(RoundOr(args.atYear, 1), 1, 80)
        age   == clamp(RoundOr(args.atAge, cur), cur, cur + 80)
    IN  /\ args.when = "year" => The(result) = Some(clamp(year * ppy, 1, total))
        /\ args.when = "age" =>
             /\ The(result) = Some(clamp((age - cur) * ppy, 1, total))
             /\ (Number(args.atAge) # NaN /\ The(Number(args.atAge)) <= cur * NumScale)
                  => The(result) = Some(1)
        /\ args.when = "payday" =>
             The(result) = Some(clamp(RoundOr(args.atPayday, 1), 1, total))

\* a windfall at age 45 for a 35 year old paid monthly: period 120
C20_Witness ==
  /\ CallDone("windfallPeriodFromChoice")
  /\ args.when = "age"
  /\ args.atAge = Txt45
  /\ args.currentAge = 35
  /\ args.payPeriodsPerYear = 12
  /\ args.totalPeriods = 780
  /\ The(result) = Some(120)

(***************************************************************************)
(* The shape of the lists makeLogTicks returns                             *)
(***************************************************************************)
\* v = b * 10^p dollars with b in {1, 2, 5} and p >= 0
IsOneTwoFive(v) ==
  v >= NumScale /\ \E b \in {1, 2, 5} : v = b * Pow10Floor(v, NumScale)

\* C21: for every max >= 1, makeLogTicks returns a strictly ascending,
\* duplicate-free list whose first element is 0 and whose last element is
\* max, and every other element has the form b * 10^p with b in {1,2,5},
\* p >= 0 and value <= max; this holds both when no thinning happens (at
\* most 7 candidates) and after thinning.
C21_LogTickShape ==
  (CallDone("makeLogTicks") /\ args >= NumScale) =>
    LET t == The(result)
        n == Len(t)
    IN  /\ n >= 2
        /\ t[1] = 0
        /\ t[n] = args
        /\ \A k \in 1..(n - 1) : t[k] < t[k + 1]
        /\ \A k \in 2..(n - 1) : IsOneTwoFive(t[k]) /\ t[k] <= args

\* a thinned list: 5000 has 13 candidates, of which 8 are returned
C21_Witness ==
  /\ CallDone("makeLogTicks")
  /\ args = 5000 * NumScale
  /\ Len(The(result)) = 8
  /\ The(result)[8] = 5000 * NumScale

\* an unthinned list whose top tick is not of the form b * 10^p
C21_WitnessPlain ==
  /\ CallDone("makeLogTicks")
  /\ args = 1234
  /\ The(result) = <<0, 1 * NumScale, 2 * NumScale, 5 * NumScale, 10 * NumScale, 1234>>

(***************************************************************************)
(* Downward relaxation of the chart scale over time                        *)
(***************************************************************************)
NextRelaxation == EditSeries \/ RunEffects

\* scheduled effects always run; the user may stop editing at any time
SpecRelaxation == Init /\ [][NextRelaxation]_vars /\ WF_vars(RunEffects)

\* the values computedYMax takes in this cycle
RelaxTargets ==
  {niceRoundUp(Max2(NumScale, m)) : m \in SeriesMaxValues} \cup {200000 * NumScale}

\* C22: downward relaxation completes: if computedYMax stays fixed (at a
\* value below yMaxDisplay) and no reset is requested, then after finitely
\* many cycles yMaxDisplay equals computedYMax exactly and stays there.
C22_RelaxationCompletes ==
  \A c \in RelaxTargets : <>[](computedYMax = c) => <>[](yMaxDisplay = c)

(***************************************************************************)
(* What the charts draw in a render                                        *)
(***************************************************************************)
\* yMaxMoney of LineChart / CompareOverlayChart: the vertical extent used by
\* yToPx, for the yMaxOverride prop ({} when it is not a finite number) and
\* the plotted values ys
yMaxMoney(yMaxOverride, ys) ==
  IF yMaxOverride # None THEN Max2(NumScale, The(yMaxOverride))
  ELSE MaxOf({NumScale} \cup ys)

\* the props App hands to the charts in a render
chartYMaxOverride == Some(yMaxDisplay)
seriesSingle        == {projectionSingle.points[k].balance : k \in 1..Len(projectionSingle.points)}
seriesSingleContrib == {projectionSingle.points[k].totalContrib : k \in 1..Len(projectionSingle.points)}

\* C23: in every render of the chart (including the first render after
\* mount, the render right after Reset or a plan load, and the render in
\* which the data maximum has just increased but the easing effect has not
\* yet run) the vertical extent used for mapping (yMaxMoney derived from
\* yMaxOverride) is >= every plotted balance.
C23_NeverClipped ==
  phase # "dirty" =>
    \A y \in seriesSingle :
      y <= yMaxMoney(chartYMaxOverride, seriesSingle \cup seriesSingleContrib)

\* C24: computedYMax is an extremum across all visible series: for all inputs
\* (including a negative starting balance or a negative contribution) it is
\* >= the balance of every sampled point of the single projection and of each
\* of the three comparison projections, and >= every totalContrib value of
\* the plotted contribution series.
C24_ComputedMaxIsExtremum ==
  phase # "dirty" =>
    /\ \A y \in seriesSingle : y <= computedYMax
    /\ \A k \in 1..3 :
         LET pts == memoProjectionCompare[k].points
         IN  \A j \in 1..Len(pts) : pts[j].balance <= computedYMax
    /\ \A y \in seriesSingleContrib : y <= computedYMax

(***************************************************************************)
(* Default target age                                                      *)
(***************************************************************************)
\* what the target-age effect sets for a Current age text
defaultTargetAge(text) ==
  LET ca == clampInt(Some(parseNum(text)), 0, 120)
  IN  IF ca > 65 THEN IntToText(ca) ELSE Txt65

\* while the target age is automatic, it is the default once the effects
\* have settled
TargetAgeSettled ==
  (phase = "idle" /\ ~targetAgeManual) => retirementAge = defaultTargetAge(currentAge)

\* a step taken while the target age is manual: the effects, and every
\* change of Current age other than a plan load or Reset, keep the target
\* age and the flag; the flag is cleared only by Reset
TargetAgeKept ==
  targetAgeManual =>
    /\ (phase = "effects" \/ (currentAge' # currentAge /\ scaleResetToken' = scaleResetToken))
         => (retirementAge' = retirementAge /\ targetAgeManual')
    /\ ~targetAgeManual' =>
         (form' = formDefaults /\ scaleResetToken' = scaleResetToken + 1)

\* C25: once the user has manually edited Target age (targetAgeManual =
\* true), no later change of Current age overwrites retirementAge; while
\* targetAgeManual is false, after the effect settles retirementAge is "65"
\* when the clamped current age is <= 65 and equals the clamped current age
\* otherwise.  Only an explicit Reset returns to the automatic default.
C25_ManualTargetAge == [](TargetAgeSettled) /\ [][TargetAgeKept]_vars

\* a plan with a target age was loaded, then Current age was changed to 70
\* and the effects have run: the loaded target age 61 is still there
C25_Witness ==
  /\ phase = "idle" /\ targetAgeManual
  /\ currentAge = Txt70 /\ retirementAge = Txt61 /\ frequencyKey = "daily"

\* the automatic default followed Current age above 65
C25_WitnessAuto ==
  phase = "idle" /\ ~targetAgeManual /\ currentAge = Txt70 /\ retirementAge = Txt70

(***************************************************************************)
(* Number of points returned                                               *)
(***************************************************************************)
\* C26: keep-all mode covers both 0 and undefined: when computeProjection is
\* called with maxPoints = 0 or with maxPoints undefined / omitted, every
\* period is kept and points has totalPeriods + 1 entries.
C26_KeepAllZeroOrUndefined ==
  (CallDone("computeProjection") /\ args.maxPoints \in {None, Some(0)}) =>
    Len(The(result).points) = The(result).totalPeriods + 1

\* C27: for every finite maxPoints = M > 0 and every totalPeriods, the number
\* of points returned by computeProjection is at most M + 1 (it can exceed M
\* itself), so with the application's M = 240 no chart series ever has more
\* than 241 points.
C27_PointCountBound ==
  /\ (CallDone("computeProjection") /\ args.maxPoints # None /\ The(args.maxPoints) > 0) =>
       Len(The(result).points) <= The(args.maxPoints) + 1
  /\ CallDone("computeProjection") /\ args.maxPoints = None =>
       Len(The(result).points) <= DefaultMaxPoints + 1
  /\ Len(projectionSingle.points) <= 241

\* a sampled run that returns M + 1 points, more than M
C27_Witness ==
  /\ CallDone("computeProjection")
  /\ args.maxPoints = Some(3)
  /\ The(result).totalPeriods = 12
  /\ Len(The(result).points) = 4

(***************************************************************************)
(* Mount with a share link (?p=...)                                        *)
(***************************************************************************)
\* the form f after applyPlanData(p)
applyPlanData(p, f) ==
  LET pick(field) == IF p[field] # None THEN The(p[field]) ELSE f[field]
      wfAmt  == parseNum(IF p.windfallAmount # None THEN The(p.windfallAmount) ELSE Txt0)
      wfWhen == IF p.windfallWhen # None THEN The(p.windfallWhen) ELSE "none"
  IN  [currentAge |-> pick("currentAge"),
       retirementAge |-> pick("retirementAge"),
       targetAgeManual |-> IF p.retirementAge # None THEN TRUE ELSE f.targetAgeManual,
       startingAmount |-> pick("startingAmount"),
       contributionPerPayday |-> pick("contributionPerPayday"),
       annualRatePct |-> pick("annualRatePct"),
       frequencyKey |-> pick("frequencyKey"),
       windfallAmount |-> pick("windfallAmount"),
       windfallOpen |-> IF wfAmt > 0 \/ wfWhen # "none" THEN TRUE ELSE f.windfallOpen,
       windfallWhen |-> pick("windfallWhen"),
       windfallAtYear |-> pick("windfallAtYear"),
       windfallAtAge |-> pick("windfallAtAge"),
       windfallAtPayday |-> pick("windfallAtPayday")]

\* the mount effects when the URL carries a plan p.  All effects of the
\* first render run in one pass, in declaration order, each with the values
\* of the first render; their state updates are queued and applied in order
\* afterwards: the share-link effect (applyPlanData), then the target-age
\* effect (currentAge and targetAgeManual of the first render), the
\* auto-open effect and the scale effect.
MountWithShareLink ==
  /\ phase = "effects"
  /\ pendingEffects = EffectNames
  /\ nEvents = 0
  /\ scaleResetToken = 0
  /\ fn = ""
  /\ \E p \in Plans :
       LET loaded == applyPlanData(p, form)
       IN  /\ SetForm([loaded EXCEPT
                 !.retirementAge =
                    IF ~targetAgeManual THEN defaultTargetAge(currentAge)
                    ELSE loaded.retirementAge,
                 !.windfallOpen =
                    IF parseNum(windfallAmount) > 0 \/ windfallWhen # "none"
                    THEN TRUE ELSE loaded.windfallOpen])
           /\ fn' = "applyPlanData"
           /\ args' = p
  /\ yMaxDisplay' = yMaxUpdater(0, computedYMax, lastScaleResetToken # scaleResetToken)
  /\ scaleResetToken' = scaleResetToken + 1
  /\ lastScaleResetToken' = scaleResetToken
  /\ lastCycle' = Some([prevMax |-> 0, computedMax |-> computedYMax,
                        reset |-> lastScaleResetToken # scaleResetToken])
  /\ pendingEffects' = {}
  /\ phase' = "dirty"
  /\ UNCHANGED <<memoVars, deps, nEvents, boundaryError, result, prev>>

NextShareLink ==
  \/ MountWithShareLink \/ RunEffects \/ Render
  \/ TypeCurrentAge \/ TypeRetirementAge \/ ClickFrequency

SpecShareLink == Init /\ [][NextShareLink]_vars

\* C28: when the app mounts with a share link whose plan contains
\* retirementAge R, then after all mount effects and the resulting re-renders
\* have settled, the retirementAge state equals R: the default-target-age
\* effect that runs in the same mount pass does not overwrite the loaded
\* value with "65".
C28_ShareLinkTargetAge ==
  (/\ fn = "applyPlanData"
   /\ phase = "idle"
   /\ nEvents = 0) =>
     (args.retirementAge # None => retirementAge = The(args.retirementAge))

(***************************************************************************)
(* Contributions across the single and comparison projections              *)
(***************************************************************************)
\* C29: contributions do not depend on the rate: for any inputs, the single
\* projection and the three comparison projections have the same
\* totalPeriods, the same sequence of periodIndex values and the same
\* totalContrib at every point and in finalContrib, so the contribution
\* series taken from the single projection is index-aligned with every
\* comparison series.
C29_ContributionsRateIndependent ==
  phase # "dirty" =>
    \A k \in 1..3 :
      LET cmp == memoProjectionCompare[k]
      IN  /\ cmp.totalPeriods = projectionSingle.totalPeriods
          /\ cmp.finalContrib = projectionSingle.finalContrib
          /\ Len(cmp.points) = Len(projectionSingle.points)
          /\ IF Len(cmp.points) > 0
             THEN \A j \in 1..Len(cmp.points) :
                    /\ cmp.points[j].periodIndex = projectionSingle.points[j].periodIndex
                    /\ cmp.points[j].totalContrib = projectionSingle.points[j].totalContrib
             ELSE FALSE

\* a windfall is part of the contributions and the three rates give
\* different balances
C29_Witness ==
  /\ phase = "idle"
  /\ projectionSingle.totalPeriods >= 1
  /\ parseNum(windfallAmount) > 0
  /\ memoWindfallAtPeriod # None
  /\ memoProjectionCompare[1].finalBalance < memoProjectionCompare[2].finalBalance
  /\ memoProjectionCompare[2].finalBalance < memoProjectionCompare[3].finalBalance

(***************************************************************************)
(* Windfall, end to end                                                    *)
(***************************************************************************)
\* C30: end to end, for any UI input state with totalPeriods >= 1, a parsed
\* windfall amount W > 0 and windfallWhen in {now, year, age, payday}, the
\* windfall is applied in exactly one period of the simulation (the period
\* resolved by the scheduler is an integer within the simulator's own
\* 1..totalPeriods), so finalContrib = totalPeriods * contributionPerPayday
\* + W; with W <= 0 or windfallWhen = none it is applied in no period.
C30_WindfallAppliedOnce ==
  phase # "dirty" =>
    LET T == projectionSingle.totalPeriods
        W == parseNum(windfallAmount)
        c == parseNum(contributionPerPayday)
    IN  /\ (T >= 1 /\ W > 0 /\ windfallWhen \in {"now", "year", "age", "payday"}) =>
             /\ memoWindfallAtPeriod # None
             /\ The(memoWindfallAtPeriod) \in 1..T
             /\ projectionSingle.finalContrib = T * c + W
        /\ (W <= 0 \/ windfallWhen = "none") =>
             projectionSingle.finalContrib = T * c

\* a windfall of 500 scheduled past the horizon (year 2 of a one-year plan)
\* was applied in the last period
C30_Witness ==
  /\ phase = "idle"
  /\ windfallWhen = "year" /\ windfallAtYear = Txt2 /\ currentAge = Txt64
  /\ projectionSingle.totalPeriods = 26
  /\ memoWindfallAtPeriod = Some(26)
  /\ projectionSingle.finalContrib = 26 * parseNum(contributionPerPayday) + 500 * NumScale

====
